---- MODULE Spec2Model ----
(***************************************************************************)
(* Model of gokart/target.py: the uniform target contract (TargetOnKart),  *)
(* its two variants (SingleFileTarget, ModelTarget), the chunked table     *)
(* serializer (LargeDataFrameProcessor) and the target factory             *)
(* (_make_file_path, make_target, make_model_target).                      *)
(*                                                                         *)
(* Spec      : processes calling exists/load/dump/remove on one artifact   *)
(*             path through targets that share one lock scope.             *)
(* SpecChunk : LargeDataFrameProcessor.save / load on one directory.       *)
(* SpecPath  : the factory's path derivation.                              *)
(***************************************************************************)
EXTENDS Integers, Sequences, FiniteSets, TLC

\* ---------------------------------------------------------------- bounds
NumProcs == 2        \* concurrent processes, each holding its own target
MaxOps == 3          \* operations called in one run, over all processes
NumObjs == 2         \* distinct objects a caller may dump
NumFns == 1          \* distinct reconstruction functions
NumMetas == 1        \* distinct (task_params, custom_labels, required_task_outputs) triples
MaxRows == 4         \* rows of a table given to LargeDataFrameProcessor.save
MaxRowBytes == 3     \* bytes one row adds to df.values.nbytes (0: a table with no column)
MaxByte == 4         \* LargeDataFrameProcessor.max_byte
MaxSaves == 2        \* save calls on one directory
MaxPathLen == 4      \* characters of a path given to the factory
MaxIdLen == 1        \* characters of a unique_id
MaxParams == 2       \* entries of task_params
MaxLabels == 2       \* entries of custom_labels
NumArchives == 2     \* archive targets of distinct final paths

Procs == 1..NumProcs
Objs == 1..NumObjs
Fns == 1..NumFns
Metas == 1..NumMetas

\* ------------------------------------------------------------ the targets
\* The final path of the artifact: either a 'gs://' object or a local file.
ArtifactPath(remote) == [scheme |-> IF remote THEN "gs" ELSE "local", name |-> "artifact"]

\* ModelTarget._load_function_path: a file of the local scratch directory.
LoadFunctionPath == [scheme |-> "local", name |-> "load_function.pkl"]

\* path.startswith('gs://')
StartsWithGs(path) == path.scheme = "gs"

Scopes == {"artifact", "scratch"}

\* One half of a stored file: the payload v written by process w, whose dump
\* was called with lock_at_dump = g (w and g are history, not content).
NoHalf == [v |-> 0, w |-> 0, g |-> FALSE]
Half(v, p, g) == [v |-> v, w |-> p, g |-> g]

AbsentFile == [ex |-> FALSE, h1 |-> NoHalf, h2 |-> NoHalf]
NoScratch == [ex |-> FALSE, model |-> 0, fn |-> -1]
\* pre: the artifact existed when the operation was called; solo: no operation of
\* another process has overlapped this one (both history).
NoLoc == [obj |-> 0, lad |-> FALSE, meta |-> 0, val |-> 0, pre |-> FALSE, solo |-> FALSE]
NoLast == [p |-> 0, op |-> "none", st |-> "none", val |-> 0, fn |-> 0, how |-> "none",
           obj |-> 0, pre |-> FALSE]

VARIABLES
    cfg,      \* [variant, remote]: which target the factory built for the path
    store,    \* the artifact at the final path: [ex, h1, h2]
    scratch,  \* ModelTarget's temporary directory: [ex, model, fn]; fn = -1: no load_function.pkl
    lock,     \* lock scope -> holder (0: free)
    pc,       \* process -> position inside the operation it is running
    loc,      \* process -> arguments and locals of the running operation
    last,     \* the operation that returned last: who, which, its outcome and result
    tfn,      \* process -> its target's _load_function field (0: None)
    nops,     \* operations called so far
    ann,      \* calls of GCSObjectMetadataClient.add_task_state_labels made so far
    \* LargeDataFrameProcessor
    dir,      \* fragment number i -> the file data_i.pkl of the directory: [ex, rows]
    sv,       \* the last save call: its table, arguments, outcome and the files it wrote
    ld,       \* the last load call since the last save: its outcome and the rows it returned
    \* the factory
    fin,      \* the factory call: its arguments and the target it built
    \* GCSObjectMetadataClient
    pm,       \* the call of _get_patched_obj_metadata: its arguments and its result
    \* archive targets of several paths
    nest      \* process -> its archive target's path, position and the scopes it holds

targetVars == <<cfg, store, scratch, lock, pc, loc, last, tfn, nops, ann>>
chunkVars == <<dir, sv, ld>>
pathVars == <<fin>>
metaVars == <<pm>>
nestVars == <<nest>>
vars == <<targetVars, chunkVars, pathVars, metaVars, nestVars>>

\* luigi target / zip client exists(): the file is there, written out or not.
Exists == store.ex

\* An artifact whose two halves were not written by one writer.
Torn(s) == s.ex /\ (s.h1 = NoHalf \/ s.h2 = NoHalf \/ s.h1.w # s.h2.w)

TargetInit ==
    /\ cfg \in [variant : {"single", "model"}, remote : BOOLEAN]
    /\ store = AbsentFile
    /\ scratch = NoScratch
    /\ lock = [s \in Scopes |-> 0]
    /\ pc = [p \in Procs |-> "idle"]
    /\ loc = [p \in Procs |-> NoLoc]
    /\ last = NoLast
    /\ tfn \in [Procs -> 0..NumFns]
    /\ (cfg.variant = "single" => tfn = [p \in Procs |-> 0])
    /\ nops = 0
    /\ ann = {}

\* The state of the targets when only the serializer or the factory is run.
TargetIdle ==
    /\ cfg = [variant |-> "single", remote |-> FALSE]
    /\ store = AbsentFile
    /\ scratch = NoScratch
    /\ lock = [s \in Scopes |-> 0]
    /\ pc = [p \in Procs |-> "idle"]
    /\ loc = [p \in Procs |-> NoLoc]
    /\ last = NoLast
    /\ tfn = [p \in Procs |-> 0]
    /\ nops = 0
    /\ ann = {}

\* ------------------------------------------------------- leaving an operation
\* The operation of p returns (st = "ok") or raises (st = "err"); the Lock
\* Protocol releases the locks p holds, whatever the outcome.
Return(p, op, st, val, fn, how) ==
    /\ pc' = [pc EXCEPT ![p] = "idle"]
    /\ last' = [p |-> p, op |-> op, st |-> st, val |-> val, fn |-> fn, how |-> how,
                obj |-> loc[p].obj, pre |-> loc[p].pre]
    /\ lock' = [s \in Scopes |-> IF lock[s] = p THEN 0 ELSE lock[s]]
    /\ loc' = [loc EXCEPT ![p] = NoLoc]

Goto(p, label) ==
    /\ pc' = [pc EXCEPT ![p] = label]
    /\ UNCHANGED last

CanCall(p) == pc[p] = "idle" /\ nops < MaxOps

\* p starts an operation with the locals l; it overlaps the running ones.
Begin(p, l) ==
    loc' = [q \in Procs |->
              IF q = p THEN [l EXCEPT !.pre = Exists,
                                      !.solo = \A r \in Procs \ {p} : pc[r] = "idle"]
              ELSE IF pc[q] # "idle" THEN [loc[q] EXCEPT !.solo = FALSE]
              ELSE loc[q]]

\* ------------------------------------------------------ external collaborators
\* FileProcessor.dump / FileProcessor.load: a codec between objects and bytes.
ProcessorDump(obj) == 2 * obj
ProcessorLoad(bytes) == bytes \div 2

\* wrap_dump_with_lock's use of exist_check once the lock is held: the write
\* may be skipped only when the artifact is already there.
MaySkipDump(exists) == exists

\* The internal remove of a backend handle on a file that is not there: the
\* outcome is the backend's (an error for some, silence for others).
RemoveAbsentOutcomes == {"ok", "err"}

\* GCSObjectMetadataClient.add_task_state_labels: a failed patch is reported
\* by the annotator and not raised to its caller.
AnnotatorRaises(failed) == FALSE

\* -------------------------------------------------------- TargetOnKart (contract)
\* _get_task_lock_params(): return self._task_lock_params
GetTaskLockParams == "artifact"

LoadUnguarded == "l_run"
\* load(): wrap_load_with_lock(func=self._load, ...)()
LoadFirstStep == "l_acq"

DumpNeverGuarded(lad) == "d_run"
\* dump(): guarded when lock_at_dump, else self._dump(...) directly
DumpFirstStep(lad) == IF lad THEN "d_acq" ELSE "d_run"

RemoveAlwaysRuns(exists) == "r_acq"
\* remove(): if self.exists(): wrap_remove_with_lock(self._remove, ...)()
RemoveFirstStep(exists) == IF exists THEN "r_acq" ELSE "idle"

\* exists(): return self._exists()
CallExists(p) ==
    /\ CanCall(p)
    /\ nops' = nops + 1
    /\ Return(p, "exists", "ok", IF Exists THEN 1 ELSE 0, 0, "ran")
    /\ UNCHANGED <<chunkVars, pathVars, metaVars, nestVars, cfg, store, scratch, tfn, ann>>

CallLoad(p) ==
    /\ CanCall(p)
    /\ nops' = nops + 1
    /\ Goto(p, LoadFirstStep)
    /\ Begin(p, NoLoc)
    /\ UNCHANGED <<chunkVars, pathVars, metaVars, nestVars, cfg, store, scratch, lock, tfn, ann>>

CallDump(p) ==
    /\ CanCall(p)
    /\ nops' = nops + 1
    /\ \E obj \in Objs, lad \in BOOLEAN, meta \in Metas :
          /\ Begin(p, [NoLoc EXCEPT !.obj = obj, !.lad = lad, !.meta = meta])
          /\ Goto(p, DumpFirstStep(lad))
    /\ UNCHANGED <<chunkVars, pathVars, metaVars, nestVars, cfg, store, scratch, lock, tfn, ann>>

CallRemove(p) ==
    /\ CanCall(p)
    /\ nops' = nops + 1
    /\ IF RemoveFirstStep(Exists) = "idle"
         THEN Return(p, "remove", "ok", 0, 0, "noop")
         ELSE Goto(p, RemoveFirstStep(Exists)) /\ Begin(p, NoLoc) /\ UNCHANGED lock
    /\ UNCHANGED <<chunkVars, pathVars, metaVars, nestVars, cfg, store, scratch, tfn, ann>>

\* The Lock Protocol: the guarded callable acquires the scope's lock before
\* the inner function runs.
AcquireLock(p) ==
    /\ pc[p] \in {"l_acq", "d_acq", "r_acq"}
    /\ lock[GetTaskLockParams] = 0
    /\ lock' = [lock EXCEPT ![GetTaskLockParams] = p]
    /\ Goto(p, CASE pc[p] = "l_acq" -> "l_run"
                 [] pc[p] = "d_acq" -> "d_chk"
                 [] pc[p] = "r_acq" -> "r_run")
    /\ UNCHANGED <<chunkVars, pathVars, metaVars, nestVars, cfg, nops, store, scratch, loc, tfn, ann>>

\* wrap_dump_with_lock, lock held: run the writer ...
GuardedDumpRuns(p) ==
    /\ pc[p] = "d_chk"
    /\ Goto(p, "d_run")
    /\ UNCHANGED <<chunkVars, pathVars, metaVars, nestVars, cfg, nops, store, scratch, lock, loc, tfn, ann>>

\* ... or skip it, release and return.
GuardedDumpSkips(p) ==
    /\ pc[p] = "d_chk"
    /\ MaySkipDump(Exists)
    /\ Return(p, "dump", "ok", 0, 0, "skipped")
    /\ UNCHANGED <<chunkVars, pathVars, metaVars, nestVars, cfg, nops, store, scratch, tfn, ann>>

\* _remove(): self._target.remove() / self._zip_client.remove()
RemoveRun(p) ==
    /\ pc[p] = "r_run"
    /\ IF Exists
         THEN store' = AbsentFile /\ Return(p, "remove", "ok", 0, 0, "ran")
         ELSE /\ store' = store
              /\ \E st \in RemoveAbsentOutcomes : Return(p, "remove", st, 0, 0, "ran")
    /\ UNCHANGED <<chunkVars, pathVars, metaVars, nestVars, cfg, nops, scratch, tfn, ann>>

\* ------------------------------------------------------------ SingleFileTarget
\* _load(): with self._target.open('r') as f: return self._processor.load(f)
SingleFileLoad(s) ==
    IF ~s.ex THEN [st |-> "err", val |-> 0]
    ELSE IF s.h1 = NoHalf \/ s.h2 = NoHalf \/ s.h1.v # s.h2.v THEN [st |-> "torn", val |-> 0]
    ELSE [st |-> "ok", val |-> ProcessorLoad(s.h1.v)]

SingleLoad(p) ==
    /\ pc[p] = "l_run"
    /\ cfg.variant = "single"
    /\ Return(p, "load", SingleFileLoad(store).st, SingleFileLoad(store).val, 0, "ran")
    /\ UNCHANGED <<chunkVars, pathVars, metaVars, nestVars, cfg, nops, store, scratch, tfn, ann>>

OpenedWithoutTruncate(s, half) == IF s.ex THEN s ELSE [ex |-> TRUE, h1 |-> half, h2 |-> NoHalf]
\* self._target.open('w'): the file is created or truncated, the stream starts
OpenedForWrite(s, half) == [ex |-> TRUE, h1 |-> half, h2 |-> NoHalf]

\* the rest of the stream, and close
ClosedAfterWrite(s, half) == [s EXCEPT !.ex = TRUE, !.h2 = half]

\* _dump(), first half of the stream. A backend failure here leaves the file
\* as it was.
SingleWriteBegin(p) ==
    /\ pc[p] = "d_run"
    /\ cfg.variant = "single"
    /\ \/ /\ store' = OpenedForWrite(store, Half(ProcessorDump(loc[p].obj), p, loc[p].lad))
          /\ Goto(p, "d_w2")
          /\ UNCHANGED <<lock, loc>>
       \/ /\ store' = store
          /\ Return(p, "dump", "err", 0, 0, "failed")
    /\ UNCHANGED <<chunkVars, pathVars, metaVars, nestVars, cfg, nops, scratch, tfn, ann>>

AnnotatesEveryPath(path) == TRUE
\* if self.path().startswith('gs://'): GCSObjectMetadataClient.add_task_state_labels(...)
SingleAnnotates(path) == StartsWithGs(path)

\* _dump(), rest of the stream and close; then the annotation, for a 'gs://' path.
SingleWriteEnd(p) ==
    /\ pc[p] = "d_w2"
    /\ cfg.variant = "single"
    /\ store' = ClosedAfterWrite(store, Half(ProcessorDump(loc[p].obj), p, loc[p].lad))
    /\ IF SingleAnnotates(ArtifactPath(cfg.remote))
         THEN Goto(p, "d_ann") /\ UNCHANGED <<lock, loc>>
         ELSE Return(p, "dump", "ok", 0, 0, "wrote")
    /\ UNCHANGED <<chunkVars, pathVars, metaVars, nestVars, cfg, nops, scratch, tfn, ann>>

AnnotationFailureFailsDump(failed) == IF failed THEN "err" ELSE "ok"
\* _dump() after add_task_state_labels(...): returns None
DumpStatusAfterAnnotation(failed) == IF AnnotatorRaises(failed) THEN "err" ELSE "ok"

\* GCSObjectMetadataClient.add_task_state_labels(path=self.path(), task_params=...,
\* custom_labels=..., required_task_outputs=...); the patch may fail.
Annotate(p) ==
    /\ pc[p] = "d_ann"
    /\ \E failed \in BOOLEAN :
          /\ ann' = ann \cup {[path |-> ArtifactPath(cfg.remote), meta |-> loc[p].meta,
                               failed |-> failed]}
          /\ Return(p, "dump", DumpStatusAfterAnnotation(failed), 0, 0,
                    IF failed THEN "unlabelled" ELSE "wrote")
    /\ UNCHANGED <<chunkVars, pathVars, metaVars, nestVars, cfg, nops, store, scratch, tfn>>

\* ----------------------------------------------------------------- ModelTarget
\* The caller's save function and reconstruction function: a codec of their own.
SaveFunction(obj) == 3 * obj
LoadFunction(bytes) == bytes \div 3

\* _make_temporary_directory(): os.makedirs(self._temporary_directory, exist_ok=True)
MakeTemporaryDirectory(p) ==
    /\ pc[p] = "d_run"
    /\ cfg.variant = "model"
    /\ scratch' = [scratch EXCEPT !.ex = TRUE]
    /\ Goto(p, "m_save")
    /\ UNCHANGED <<chunkVars, pathVars, metaVars, nestVars, cfg, nops, store, lock, loc, tfn, ann>>

\* self._save_function(obj, self._model_path()); it may raise.
ModelSave(p) ==
    /\ pc[p] = "m_save"
    /\ \/ /\ scratch.ex
          /\ scratch' = [scratch EXCEPT !.model = SaveFunction(loc[p].obj)]
          /\ Goto(p, "n_acq")
          /\ UNCHANGED <<lock, loc>>
       \/ /\ scratch' = scratch
          /\ Return(p, "dump", "err", 0, 0, "failed")
    /\ UNCHANGED <<chunkVars, pathVars, metaVars, nestVars, cfg, nops, store, tfn, ann>>

\* make_target(self._load_function_path()).dump(self._load_function, ...): a
\* guarded dump (lock_at_dump defaults to True) under the scratch path's scope;
\* the Lock Protocol may skip it when load_function.pkl is already there.
NestedDumpAcquire(p) ==
    /\ pc[p] = "n_acq"
    /\ lock["scratch"] = 0
    /\ \/ /\ lock' = [lock EXCEPT !["scratch"] = p]
          /\ Goto(p, "n_run")
       \/ /\ MaySkipDump(scratch.ex /\ scratch.fn # -1)
          /\ lock' = lock
          /\ Goto(p, "m_zip")
    /\ UNCHANGED <<chunkVars, pathVars, metaVars, nestVars, cfg, nops, store, scratch, loc, tfn, ann>>

\* The nested SingleFileTarget._dump: writes the pickled function (the local
\* target creates the directory it needs), annotates for a 'gs://' path.
NestedDumpRun(p) ==
    /\ pc[p] = "n_run"
    /\ \/ /\ scratch' = [scratch EXCEPT !.ex = TRUE, !.fn = ProcessorDump(tfn[p])]
          /\ ann' = IF SingleAnnotates(LoadFunctionPath)
                      THEN ann \cup {[path |-> LoadFunctionPath, meta |-> loc[p].meta,
                                      failed |-> FALSE]}
                      ELSE ann
          /\ lock' = [lock EXCEPT !["scratch"] = 0]
          /\ Goto(p, "m_zip")
          /\ UNCHANGED loc
       \/ /\ scratch' = scratch
          /\ ann' = ann
          /\ Return(p, "dump", "err", 0, 0, "failed")
    /\ UNCHANGED <<chunkVars, pathVars, metaVars, nestVars, cfg, nops, store, tfn>>

\* self._zip_client.make_archive(): reads the scratch directory and starts the
\* archive file; it may raise.
MakeArchiveBegin(p) ==
    /\ pc[p] = "m_zip"
    /\ \/ /\ scratch.ex
          /\ store' = OpenedForWrite(store, Half(scratch.model, p, loc[p].lad))
          /\ loc' = [loc EXCEPT ![p].val = scratch.fn]
          /\ Goto(p, "m_zip2")
          /\ UNCHANGED lock
       \/ /\ store' = store
          /\ Return(p, "dump", "err", 0, 0, "failed")
    /\ UNCHANGED <<chunkVars, pathVars, metaVars, nestVars, cfg, nops, scratch, tfn, ann>>

\* make_archive(), second entry and close.
MakeArchiveEnd(p) ==
    /\ pc[p] = "m_zip2"
    /\ store' = ClosedAfterWrite(store, Half(loc[p].val, p, loc[p].lad))
    /\ Goto(p, "m_rm")
    /\ UNCHANGED <<chunkVars, pathVars, metaVars, nestVars, cfg, nops, scratch, lock, loc, tfn, ann>>

\* self._zip_client.unpack_archive(): extracts the entries over the scratch
\* directory; a missing or truncated archive raises.
UnpackArchive(p) ==
    /\ pc[p] = "l_run"
    /\ cfg.variant = "model"
    /\ IF ~store.ex \/ store.h1 = NoHalf \/ store.h2 = NoHalf
         THEN /\ scratch' = scratch
              /\ Return(p, "load", IF store.ex THEN "torn" ELSE "err", 0, 0, "failed")
         ELSE /\ scratch' = [ex |-> TRUE, model |-> store.h1.v,
                             fn |-> IF store.h2.v = -1 THEN scratch.fn ELSE store.h2.v]
              /\ Goto(p, "ml_fn")
              /\ UNCHANGED <<lock, loc>>
    /\ UNCHANGED <<chunkVars, pathVars, metaVars, nestVars, cfg, nops, store, tfn, ann>>

\* self._load_function or make_target(self._load_function_path()).load():
\* the nested load is guarded by the scratch path's scope.
ResolveLoadFunction(p) ==
    /\ pc[p] = "ml_fn"
    /\ IF tfn[p] # 0
         THEN Goto(p, "ml_call") /\ lock' = lock
         ELSE /\ lock["scratch"] = 0
              /\ lock' = [lock EXCEPT !["scratch"] = p]
              /\ Goto(p, "nl_run")
    /\ UNCHANGED <<chunkVars, pathVars, metaVars, nestVars, cfg, nops, store, scratch, loc, tfn, ann>>

\* The nested SingleFileTarget._load, and the assignment to self._load_function.
NestedLoadRun(p) ==
    /\ pc[p] = "nl_run"
    /\ IF scratch.ex /\ scratch.fn # -1
         THEN /\ tfn' = [tfn EXCEPT ![p] = ProcessorLoad(scratch.fn)]
              /\ lock' = [lock EXCEPT !["scratch"] = 0]
              /\ Goto(p, "ml_call")
              /\ UNCHANGED loc
         ELSE /\ tfn' = tfn
              /\ Return(p, "load", "err", 0, 0, "failed")
    /\ UNCHANGED <<chunkVars, pathVars, metaVars, nestVars, cfg, nops, store, scratch, ann>>

\* model = self._load_function(self._model_path()); None is not callable, and
\* the function may raise.
ModelReconstruct(p) ==
    /\ pc[p] = "ml_call"
    /\ \/ /\ tfn[p] # 0
          /\ scratch.ex
          /\ loc' = [loc EXCEPT ![p].val = LoadFunction(scratch.model)]
          /\ Goto(p, "ml_rm")
          /\ UNCHANGED lock
       \/ Return(p, "load", "err", 0, 0, "failed")
    /\ UNCHANGED <<chunkVars, pathVars, metaVars, nestVars, cfg, nops, store, scratch, tfn, ann>>

\* _remove_temporary_directory(): shutil.rmtree(self._temporary_directory),
\* which raises when the directory is not there; then _dump / _load return.
RemoveTemporaryDirectory(p) ==
    /\ pc[p] \in {"m_rm", "ml_rm"}
    /\ IF scratch.ex
         THEN /\ scratch' = NoScratch
              /\ IF pc[p] = "m_rm"
                   THEN Return(p, "dump", "ok", 0, 0, "wrote")
                   ELSE Return(p, "load", "ok", loc[p].val, tfn[p], "ran")
         ELSE /\ scratch' = scratch
              /\ Return(p, IF pc[p] = "m_rm" THEN "dump" ELSE "load", "err", 0, 0, "failed")
    /\ UNCHANGED <<chunkVars, pathVars, metaVars, nestVars, cfg, nops, store, tfn, ann>>

Next ==
    \E p \in Procs :
        \/ CallExists(p)
        \/ CallLoad(p)
        \/ CallDump(p)
        \/ CallRemove(p)
        \/ AcquireLock(p)
        \/ GuardedDumpRuns(p)
        \/ GuardedDumpSkips(p)
        \/ RemoveRun(p)
        \/ SingleLoad(p)
        \/ SingleWriteBegin(p)
        \/ SingleWriteEnd(p)
        \/ Annotate(p)
        \/ MakeTemporaryDirectory(p)
        \/ ModelSave(p)
        \/ NestedDumpAcquire(p)
        \/ NestedDumpRun(p)
        \/ MakeArchiveBegin(p)
        \/ MakeArchiveEnd(p)
        \/ UnpackArchive(p)
        \/ ResolveLoadFunction(p)
        \/ NestedLoadRun(p)
        \/ ModelReconstruct(p)
        \/ RemoveTemporaryDirectory(p)


\* ---------------------------------------------------- LargeDataFrameProcessor
\* The files data_<i>.pkl a directory may hold.
FragIds == 0..(MaxRows * MaxRowBytes)
NoFile == [ex |-> FALSE, rows |-> <<>>]
NoSave == [gen |-> 0, tbl |-> <<>>, b |-> 0, m |-> 0, k |-> 0, st |-> "none",
           wrote |-> {}, clean |-> TRUE]
NoLoad == [st |-> "none", rows |-> <<>>]

\* The table of the g-th save: n rows, each known by the save and its position.
Table(g, n) == [i \in 1..n |-> <<g, i>>]

NeverEmptyDf(n, b) == FALSE
\* df.empty: no row or no column
IsEmptyDf(n, b) == n = 0 \/ b = 0

\* split_size = df.values.nbytes // self.max_byte + 1
SplitSize(n, b, m) == (n * b) \div m + 1

\* np.array_split(range(n), k): k sections, the first n % k of them one longer.
SectionSize(n, k, i) == n \div k + (IF i < n % k THEN 1 ELSE 0)
SectionStart(n, k, i) == i * (n \div k) + (IF i < n % k THEN i ELSE n % k)

\* The loop stops at the first empty section: idx[0] raises IndexError there.
FirstEmpty(n, k) ==
    IF \E i \in 0..(k - 1) : SectionSize(n, k, i) = 0
      THEN CHOOSE i \in 0..(k - 1) :
              /\ SectionSize(n, k, i) = 0
              /\ \A j \in 0..(i - 1) : SectionSize(n, k, j) # 0
      ELSE k

\* df.iloc[idx[0] : idx[-1] + 1]
Slice(tbl, n, k, i) == SubSeq(tbl, SectionStart(n, k, i) + 1, SectionStart(n, k, i) + SectionSize(n, k, i))

ChunkInit ==
    /\ dir = [i \in FragIds |-> NoFile]
    /\ sv = NoSave
    /\ ld = NoLoad

ChunkIdle == ChunkInit

\* save(df, file_path), from call to return or raise.
Save ==
    /\ sv.gen < MaxSaves
    /\ \E n \in 0..MaxRows, b \in 0..MaxRowBytes, m \in 1..MaxByte :
          LET tbl == Table(sv.gen + 1, n)
              empty == IsEmptyDf(n, b)
              k == SplitSize(n, b, m)
              w == IF empty THEN 1 ELSE FirstEmpty(n, k)
              ok == empty \/ w = k
          IN /\ dir' = [i \in FragIds |->
                          IF i < w
                            THEN [ex |-> TRUE, rows |-> IF empty THEN tbl ELSE Slice(tbl, n, k, i)]
                            ELSE dir[i]]
             /\ sv' = [gen |-> sv.gen + 1, tbl |-> tbl, b |-> b, m |-> m,
                       k |-> IF empty THEN 0 ELSE k,
                       st |-> IF ok THEN "ok" ELSE "err",
                       wrote |-> 0..(w - 1),
                       clean |-> sv.clean /\ ok]
    /\ ld' = NoLoad
    /\ UNCHANGED <<targetVars, pathVars, metaVars, nestVars>>

\* glob(os.path.join(dir_path, 'data_*.pkl')): the files there, in the order the
\* file system lists them.
Listings ==
    LET F == {i \in FragIds : dir[i].ex}
    IN {o \in [1..Cardinality(F) -> F] : \A i, j \in 1..Cardinality(F) : i # j => o[i] # o[j]}

RECURSIVE Concat(_)
Concat(o) == IF o = <<>> THEN <<>> ELSE dir[Head(o)].rows \o Concat(Tail(o))

\* load(file_path): pd.concat of the files read; pd.concat of no file raises ValueError.
Load ==
    /\ \E o \in Listings :
          ld' = IF o = <<>> THEN [st |-> "ValueError", rows |-> <<>>]
                ELSE [st |-> "ok", rows |-> Concat(o)]
    /\ UNCHANGED <<dir, sv, targetVars, pathVars, metaVars, nestVars>>


\* ------------------------------------------------------------------ the factory
Chars == {"a", ".", "/"}
IdChars == {"1", "."}
SeqsUpTo(S, n) == UNION {[1..k -> S] : k \in 0..n}
Paths == SeqsUpTo(Chars, MaxPathLen)
\* unique_id = None
NoneId == <<"None">>
Ids == SeqsUpTo(IdChars, MaxIdLen) \cup {NoneId}

NoTarget(p, u) == [path |-> p, uid |-> u, kind |-> "none", final |-> <<>>,
                   lockArgs |-> <<>>, tmp |-> <<>>]

\* str.rfind, counted from 1 (0: not found)
RFind(p, c) ==
    IF \E i \in 1..Len(p) : p[i] = c
      THEN CHOOSE i \in 1..Len(p) : p[i] = c /\ \A j \in (i + 1)..Len(p) : p[j] # c
      ELSE 0

\* os.path.splitext: split at the last dot, when it comes after the last
\* separator and after a character of the file name that is not a dot.
SplitExt(p) ==
    LET sepIndex == RFind(p, "/")
        dotIndex == RFind(p, ".")
    IN IF dotIndex > sepIndex /\ \E j \in (sepIndex + 1)..(dotIndex - 1) : p[j] # "."
         THEN <<SubSeq(p, 1, dotIndex - 1), SubSeq(p, dotIndex, Len(p))>>
         ELSE <<p, <<>>>>

AppendedFilePath(p, u) == IF u # NoneId THEN p \o <<"_">> \o u ELSE p
\* _make_file_path(original_path, unique_id)
MakeFilePath(p, u) ==
    IF u # NoneId THEN SplitExt(p)[1] \o <<"_">> \o u \o SplitExt(p)[2] ELSE p

\* hashlib.md5(file_path.encode()).hexdigest()
Md5(p) == <<"md5">> \o p

PathInit == fin \in {NoTarget(p, u) : p \in Paths, u \in Ids}

PathIdle == fin = NoTarget(<<>>, NoneId)

\* make_target(file_path, unique_id)
MakeTarget ==
    /\ fin' = [fin EXCEPT !.kind = "single",
                          !.lockArgs = <<fin.path, fin.uid>>,
                          !.final = MakeFilePath(fin.path, fin.uid),
                          !.tmp = <<>>]
    /\ UNCHANGED <<targetVars, chunkVars, metaVars, nestVars>>

\* make_model_target(file_path, temporary_directory, save_function, load_function, unique_id)
MakeModelTarget ==
    /\ fin' = [fin EXCEPT !.kind = "model",
                          !.lockArgs = <<fin.path, fin.uid>>,
                          !.final = MakeFilePath(fin.path, fin.uid),
                          !.tmp = Md5(MakeFilePath(fin.path, fin.uid))]
    /\ UNCHANGED <<targetVars, chunkVars, metaVars, nestVars>>


\* ---------------------------------------------------- GCSObjectMetadataClient
\* The backend's ceiling on the total size of an object's metadata.
MetadataSizeCeiling == 8

LabelKeys == {<<"a">>, <<"b">>, <<"c">>}

\* Values a caller gives: strings, booleans, integers.
StrV(s) == [t |-> "str", s |-> s, b |-> FALSE, n |-> 0]
BoolV(b) == [t |-> "bool", s |-> <<>>, b |-> b, n |-> 0]
IntV(n) == [t |-> "int", s |-> <<>>, b |-> FALSE, n |-> n]
RawValues == {StrV(<<>>), StrV(<<"x">>), BoolV(TRUE), IntV(12)}

DigitChar(d) == <<"0", "1", "2", "3", "4", "5", "6", "7", "8", "9">>[d + 1]
RECURSIVE Digits(_)
Digits(n) == IF n < 10 THEN <<DigitChar(n)>> ELSE Digits(n \div 10) \o <<DigitChar(n % 10)>>

\* str(value)
Str(v) ==
    CASE v.t = "str" -> v.s
      [] v.t = "bool" -> IF v.b THEN <<"T", "r", "u", "e">> ELSE <<"F", "a", "l", "s", "e">>
      [] v.t = "int" -> Digits(v.n)

\* A mapping in its order: entries [k, v] with distinct keys.
MappingsUpTo(n) ==
    {m \in UNION {[1..j -> [k : LabelKeys, v : RawValues]] : j \in 0..n} :
        \A i, j \in 1..Len(m) : i # j => m[i].k # m[j].k}

HasKey(m, k) == \E i \in 1..Len(m) : m[i].k = k
Lookup(m, k) == m[CHOOSE i \in 1..Len(m) : m[i].k = k].v

\* _normalize_labels: every value to its string form
NormalizeLabels(m) == [i \in 1..Len(m) |-> [k |-> m[i].k, v |-> Str(m[i].v)]]

IsNotEmptyLabel(e) == e.v # <<>>
\* An entry whose string is empty is left out.
NonEmptyLabels(m) == SelectSeq(m, IsNotEmptyLabel)

TaskParamsTakePrecedence(params, labels) ==
    params \o SelectSeq(labels, LAMBDA e : ~HasKey(params, e.k))
\* The merge: task parameters in their order, a key that is also a custom
\* label with the label's value; then the custom labels of other keys.
MergeLabels(params, labels) ==
    [i \in 1..Len(params) |->
        IF HasKey(labels, params[i].k)
          THEN [k |-> params[i].k, v |-> Lookup(labels, params[i].k)]
          ELSE params[i]]
    \o SelectSeq(labels, LAMBDA e : ~HasKey(params, e.k))

\* len(label_name) + len(label_value)
LabelSize(e) == Len(e.k) + Len(e.v)

RECURSIVE TotalSize(_)
TotalSize(m) == IF m = <<>> THEN 0 ELSE LabelSize(Head(m)) + TotalSize(Tail(m))

RECURSIVE SkipsOversizedEntries(_, _)
SkipsOversizedEntries(entries, acc) ==
    IF entries = <<>> THEN acc
    ELSE IF TotalSize(acc) + LabelSize(Head(entries)) > MetadataSizeCeiling
      THEN SkipsOversizedEntries(Tail(entries), acc)
      ELSE SkipsOversizedEntries(Tail(entries), Append(acc, Head(entries)))

\* The size policy: entries are added in order until the next one would take
\* the total over the ceiling; nothing is added after that.
RECURSIVE AdjustToSizeLimit(_, _)
AdjustToSizeLimit(entries, acc) ==
    IF entries = <<>> THEN acc
    ELSE IF TotalSize(acc) + LabelSize(Head(entries)) > MetadataSizeCeiling
      THEN acc
      ELSE AdjustToSizeLimit(Tail(entries), Append(acc, Head(entries)))

\* _get_patched_obj_metadata({}, task_params, custom_labels). Whether an empty
\* string is left out before or after the merge is the client's choice.
GetPatchedObjMetadata(params, labels, dropFirst) ==
    LET np == NormalizeLabels(params)
        nl == NormalizeLabels(labels)
        merged == IF dropFirst THEN MergeLabels(NonEmptyLabels(np), NonEmptyLabels(nl))
                  ELSE NonEmptyLabels(MergeLabels(np, nl))
    IN [merged |-> merged, out |-> AdjustToSizeLimit(merged, <<>>)]

NoPatch(params, labels) == [params |-> params, labels |-> labels, st |-> "none",
                            merged |-> <<>>, out |-> <<>>]

MetaInit == pm \in {NoPatch(ps, ls) : ps \in MappingsUpTo(MaxParams), ls \in MappingsUpTo(MaxLabels)}

MetaIdle == pm = NoPatch(<<>>, <<>>)

\* GCSObjectMetadataClient._get_patched_obj_metadata
GetPatched ==
    /\ pm.st = "none"
    /\ \E dropFirst \in BOOLEAN :
          pm' = [pm EXCEPT !.st = "done",
                           !.merged = GetPatchedObjMetadata(pm.params, pm.labels, dropFirst).merged,
                           !.out = GetPatchedObjMetadata(pm.params, pm.labels, dropFirst).out]
    /\ UNCHANGED <<targetVars, chunkVars, pathVars, nestVars>>

\* ------------------------------------- archive targets and their nested target
Archives == 1..NumArchives

\* The path an archive target was made for (no unique_id).
ArchiveFilePath(a) == <<"/", "m">> \o Digits(a) \o <<".", "z", "i", "p">>

\* make_task_lock_params(file_path, unique_id): a key of its two arguments.
MakeTaskLockParams(path, uid) == <<path, uid>>

\* make_model_target: the scope of the archive target, from its arguments.
ArchiveScope(a) == MakeTaskLockParams(ArchiveFilePath(a), NoneId)

\* make_model_target and _load_function_path():
\* os.path.join(temporary_directory, md5(final path), 'load_function.pkl')
ArchiveLoadFunctionPath(a) ==
    <<"tmp", "/">> \o Md5(MakeFilePath(ArchiveFilePath(a), NoneId)) \o <<"/", "load_function.pkl">>

NestedScopeIsOwnScope(a) == ArchiveScope(a)
\* make_target(self._load_function_path()): no unique_id, no task_lock_params,
\* so the scope is made from the path of load_function.pkl.
NestedScope(a) == MakeTaskLockParams(ArchiveLoadFunctionPath(a), NoneId)

NestScopes == {ArchiveScope(a) : a \in Archives} \cup {NestedScope(a) : a \in Archives}

NoCall == [pc |-> "idle", a |-> 0, op |-> "none", lad |-> FALSE]

NestInit == nest = [call |-> [p \in Procs |-> NoCall], lock |-> [sc \in NestScopes |-> 0]]

NestIdle == NestInit

At(p, label) == nest.call[p].pc = label

\* The guarded callable returns or raises: the locks p holds are released.
Released(p) == [sc \in NestScopes |-> IF nest.lock[sc] = p THEN 0 ELSE nest.lock[sc]]

\* load() or dump(obj, lock_at_dump) on an archive target.
ArchiveCall(p) ==
    /\ At(p, "idle")
    /\ \E a \in Archives, op \in {"load", "dump"}, lad \in BOOLEAN :
          /\ op = "load" => lad
          /\ nest' = [nest EXCEPT !.call[p] =
                        [pc |-> IF lad THEN "o_acq" ELSE "o_run", a |-> a, op |-> op, lad |-> lad]]
    /\ UNCHANGED <<targetVars, chunkVars, pathVars, metaVars>>

\* The Lock Protocol grants the archive target's lock.
ArchiveAcquire(p) ==
    /\ At(p, "o_acq")
    /\ nest.lock[ArchiveScope(nest.call[p].a)] = 0
    /\ nest' = [nest EXCEPT !.call[p].pc = "o_run",
                            !.lock[ArchiveScope(nest.call[p].a)] = p]
    /\ UNCHANGED <<targetVars, chunkVars, pathVars, metaVars>>

\* _dump: make the directory, save_function; _load: unpack_archive, and the
\* test of self._load_function. Any of them may raise.
ArchiveInnerBegin(p) ==
    /\ At(p, "o_run")
    /\ \/ nest' = [nest EXCEPT !.call[p].pc = "n_acq"]
       \/ /\ nest.call[p].op = "load"
          /\ nest' = [nest EXCEPT !.call[p].pc = "o_end"]
       \/ nest' = [nest EXCEPT !.call[p] = NoCall, !.lock = Released(p)]
    /\ UNCHANGED <<targetVars, chunkVars, pathVars, metaVars>>

\* The nested target's load() / dump(): the Lock Protocol grants its lock.
NestedAcquire(p) ==
    /\ At(p, "n_acq")
    /\ nest.lock[NestedScope(nest.call[p].a)] = 0
    /\ nest' = [nest EXCEPT !.call[p].pc = "n_run",
                            !.lock[NestedScope(nest.call[p].a)] = p]
    /\ UNCHANGED <<targetVars, chunkVars, pathVars, metaVars>>

\* The nested target's _load / _dump returns, or raises through the outer call.
NestedRun(p) ==
    /\ At(p, "n_run")
    /\ \/ nest' = [nest EXCEPT !.call[p].pc = "o_end",
                               !.lock[NestedScope(nest.call[p].a)] = 0]
       \/ nest' = [nest EXCEPT !.call[p] = NoCall, !.lock = Released(p)]
    /\ UNCHANGED <<targetVars, chunkVars, pathVars, metaVars>>

\* make_archive / the reconstruction, _remove_temporary_directory, return.
ArchiveInnerEnd(p) ==
    /\ At(p, "o_end")
    /\ nest' = [nest EXCEPT !.call[p] = NoCall, !.lock = Released(p)]
    /\ UNCHANGED <<targetVars, chunkVars, pathVars, metaVars>>

\* ------------------------------------------------------------ specifications
Init == TargetInit /\ ChunkIdle /\ PathIdle /\ MetaIdle /\ NestIdle
Spec == Init /\ [][Next]_vars

InitChunk == TargetIdle /\ ChunkInit /\ PathIdle /\ MetaIdle /\ NestIdle
NextChunk == Save \/ Load
SpecChunk == InitChunk /\ [][NextChunk]_vars

InitPath == TargetIdle /\ ChunkIdle /\ PathInit /\ MetaIdle /\ NestIdle
NextPath == MakeTarget \/ MakeModelTarget
SpecPath == InitPath /\ [][NextPath]_vars

InitMeta == TargetIdle /\ ChunkIdle /\ PathIdle /\ MetaInit /\ NestIdle
NextMeta == GetPatched
SpecMeta == InitMeta /\ [][NextMeta]_vars

\* Archive targets of several paths. A step of a running call is taken in the
\* end; a lock that is free again and again is granted in the end.
InitNest == TargetIdle /\ ChunkIdle /\ PathIdle /\ MetaIdle /\ NestInit
NextNest ==
    \E p \in Procs :
        \/ ArchiveCall(p)
        \/ ArchiveAcquire(p)
        \/ ArchiveInnerBegin(p)
        \/ NestedAcquire(p)
        \/ NestedRun(p)
        \/ ArchiveInnerEnd(p)
\* A step of p inside a call; a grant of the lock p waits for.
Runs(p) == ArchiveInnerBegin(p) \/ NestedRun(p) \/ ArchiveInnerEnd(p)
Granted(p) == ArchiveAcquire(p) \/ NestedAcquire(p)
SpecNest ==
    /\ InitNest
    /\ [][NextNest]_vars
    /\ \A p \in Procs : WF_vars(Runs(p)) /\ SF_vars(Granted(p))
\* ======================================================== properties of Spec
\* Positions inside the inner functions the contract layer wraps.
LoadSteps == {"l_run", "ml_fn", "nl_run", "ml_call", "ml_rm"}
WriterSteps == {"d_run", "d_w2", "d_ann", "m_save", "n_acq", "n_run", "m_zip", "m_zip2", "m_rm"}
ModelInnerSteps == (LoadSteps \cup WriterSteps) \ {"d_run", "d_w2", "d_ann"}

InLoad(p) == pc[p] \in LoadSteps
InWriter(p) == pc[p] \in WriterSteps
InRemove(p) == pc[p] = "r_run"

\* p is inside load(), inside the internal remove, or inside the writer of a
\* dump() called with lock_at_dump = True.
InGuardedOp(p) == InLoad(p) \/ InRemove(p) \/ (InWriter(p) /\ loc[p].lad)

Quiet(p) == \A q \in Procs \ {p} : pc[q] = "idle"
Returns(p) == pc[p] # "idle" /\ pc'[p] = "idle"

\* C1: for one path and one lock scope, two lock-guarded operations (load, dump
\* with lock_at_dump, the internal remove) are never inside their inner
\* functions together; a load that finds the artifact torn finds a half written
\* by an unguarded dump; and two guarded dumps never leave one half each.
C1_GuardedOpsExclusive ==
    /\ \A p, q \in Procs : p # q => ~(InGuardedOp(p) /\ InGuardedOp(q))
    /\ \A p \in Procs :
          pc[p] = "l_run" /\ Torn(store) =>
              \/ store.h1 # NoHalf /\ ~store.h1.g
              \/ store.h2 # NoHalf /\ ~store.h2.g
    /\ (store.h1 # NoHalf /\ store.h2 # NoHalf /\ store.h1.w # store.h2.w)
          => ~(store.h1.g /\ store.h2.g)

\* A guarded dump is half-way through its write while a load waits for the lock.
C1_Witness ==
    \E p, q \in Procs :
        /\ pc[p] \in {"d_w2", "m_zip2"} /\ loc[p].lad
        /\ pc[q] = "l_acq"
        /\ store.h2 = NoHalf

\* C2: whenever ModelTarget._dump or ModelTarget._load returns or raises, with no
\* other process at work, the scratch directory does not exist afterwards.
C2_ScratchRemovedOnEveryExit ==
    [][\A p \in Procs :
          (cfg.variant = "model" /\ pc[p] \in ModelInnerSteps /\ Returns(p) /\ Quiet(p))
              => ~scratch'.ex]_vars

\* The dump of p returns without error ...
DumpReturnsOk(p) ==
    /\ pc[p] \in WriterSteps \cup {"d_chk"}
    /\ Returns(p)
    /\ last'.st = "ok"

\* ... and its writer ran to the end.
DumpWroteOk(p) == DumpReturnsOk(p) /\ pc[p] # "d_chk"

RoundTrips(p) == store'.ex /\ SingleFileLoad(store') = [st |-> "ok", val |-> loc[p].obj]

C4_AnnotatedAfterRemoteWrite ==
    [][\A p \in Procs :
          (DumpWroteOk(p) /\ StartsWithGs(ArtifactPath(cfg.remote)))
              => \E a \in ann' : a.path = ArtifactPath(cfg.remote) /\ a.meta = loc[p].meta]_vars

RemoveCalled(p) ==
    /\ pc[p] = "idle"
    /\ nops' # nops
    /\ \/ pc'[p] = "r_acq"
       \/ pc'[p] = "idle" /\ last'.p = p /\ last'.op = "remove"

\* C6: remove() on a path with no artifact returns without error at once: no
\* lock is taken, the internal remove is not called, storage is unchanged; and a
\* remove that ran leaves no artifact, so a second remove is that no-op.
C6_RemoveOfAbsentIsNoOp ==
    [][\A p \in Procs :
          /\ (RemoveCalled(p) /\ ~store.ex)
                => /\ pc'[p] = "idle" /\ last'.st = "ok"
                   /\ store' = store /\ lock' = lock /\ scratch' = scratch
          /\ (pc[p] = "r_run" /\ Returns(p) /\ last'.st = "ok") => ~store'.ex]_vars

\* A remove() returned as a no-op after an earlier operation.
C6_Witness ==
    /\ last.op = "remove" /\ last.how = "noop" /\ last.st = "ok"
    /\ nops >= 2
    /\ ~store.ex

\* C7: remove() never runs the internal remove on an artifact that is absent at
\* that moment, and never ends in an error.
C7_RemoveRaceBenign ==
    /\ \A p \in Procs : pc[p] = "r_run" => store.ex
    /\ last.op = "remove" => last.st = "ok"

\* C13: no exists/load/dump/remove call changes a field the target was
\* constructed with: a target built without a reconstruction function still has
\* none after load().
C13_TargetFieldsUnchanged == [][tfn' = tfn]_vars

\* C14: the loader and the internal remove run only while the caller holds the
\* lock of the target's scope; the writer runs holding it exactly when dump()
\* was called with lock_at_dump true, after the Lock Protocol's existence check;
\* with lock_at_dump false the caller goes to the writer without waiting for or
\* holding any lock.
C14_GuardRouting ==
    \A p \in Procs :
        /\ InLoad(p) => lock[GetTaskLockParams] = p
        /\ InRemove(p) => lock[GetTaskLockParams] = p
        /\ (InWriter(p) \/ pc[p] \in {"d_acq", "d_chk"})
              => (loc[p].lad <=> (pc[p] = "d_acq" \/ lock[GetTaskLockParams] = p))
        /\ pc[p] \in {"d_acq", "d_chk"} => loc[p].lad
        /\ pc[p] = "d_chk" => lock[GetTaskLockParams] = p
        /\ (InWriter(p) /\ ~loc[p].lad /\ pc[p] \notin {"n_run"})
              => \A sc \in Scopes : lock[sc] # p

\* An unguarded dump is inside its writer while a guarded one holds the lock.
C14_Witness ==
    \E p, q \in Procs :
        /\ InWriter(p) /\ ~loc[p].lad
        /\ InWriter(q) /\ loc[q].lad /\ lock[GetTaskLockParams] = q

\* C19: the annotator is called only by a dump() of a Single-File target on
\* remote storage that has written its file to the end: not by load(), exists()
\* or remove(), not for a local path, not before or without the write (with
\* no other operation overlapping the dump, the file is there as it wrote it).
C19_AnnotatorOnlyAfterRemoteWrite ==
    [][ann' # ann =>
          /\ \A a \in ann' \ ann : StartsWithGs(a.path)
          /\ cfg.remote
          /\ \E p \in Procs :
                /\ pc[p] = "d_ann" /\ Returns(p)
                /\ last'.op = "dump" /\ last'.p = p
                /\ loc[p].solo => (store.ex /\ store.h1.w = p /\ store.h2.w = p)
                /\ store' = store]_vars

\* A dump to 'gs://' returned after the annotator labelled the object.
C19_Witness ==
    /\ last.op = "dump" /\ last.how = "wrote" /\ last.st = "ok"
    /\ \E a \in ann : ~a.failed /\ StartsWithGs(a.path)

\* =================================================== properties of SpecChunk
RowSet(rows) == {rows[i] : i \in 1..Len(rows)}

\* C8: after completed saves that all returned without error, a load returns
\* exactly the rows of the most recent save and no row of an earlier one.
C8_LoadReadsOneSave ==
    (ld.st = "ok" /\ sv.gen >= 1 /\ sv.clean)
        => /\ RowSet(ld.rows) = RowSet(sv.tbl)
           /\ Len(ld.rows) = Len(sv.tbl)

\* C9: save of a non-empty table completes without error and writes exactly the
\* files 0 .. chunkCount-1, chunkCount = floor(footprint / maxBytes) + 1, also
\* when chunkCount is larger than the number of rows; the files hold contiguous
\* ranges of the rows, in order, whose sizes differ by at most one and which
\* cover every row once.
C9_SaveWritesChunkCountFiles ==
    (sv.st # "none" /\ ~IsEmptyDf(Len(sv.tbl), sv.b))
        => LET k == (Len(sv.tbl) * sv.b) \div sv.m + 1
           IN /\ sv.st = "ok"
              /\ sv.wrote = 0..(k - 1)
              /\ \A i \in 0..(k - 1) : dir[i].ex
              /\ \A i, j \in 0..(k - 1) :
                    /\ Len(dir[i].rows) - Len(dir[j].rows) \in {-1, 0, 1}
                    /\ (i < j => Len(dir[i].rows) >= Len(dir[j].rows))

\* C16: after one save of a non-empty table into a directory that held no
\* fragment, load returns the rows of the table in their order, whatever the
\* order the directory lists the fragments in.
C16_LoadInSequenceOrder ==
    (ld.st # "none" /\ sv.gen = 1 /\ sv.st = "ok" /\ Len(sv.tbl) > 0 /\ sv.b > 0)
        => ld.st = "ok" /\ ld.rows = sv.tbl

\* C17: load on a directory that holds no fragment fails with NotFound.
C17_LoadOfNothingIsNotFound ==
    (ld.st # "none" /\ \A i \in FragIds : ~dir[i].ex) => ld.st = "NotFound"

\* C18: for every max_byte, save of an empty table (no row, or no column)
\* returns without error having written fragment 0 and no other; when the
\* directory held no fragment before, a load that follows returns that table.
C18_EmptyTableOneFragment ==
    (sv.st # "none" /\ (Len(sv.tbl) = 0 \/ sv.b = 0)) =>
        /\ sv.st = "ok"
        /\ sv.wrote = {0}
        /\ dir[0] = [ex |-> TRUE, rows |-> sv.tbl]
        /\ sv.gen = 1 =>
              /\ \A i \in FragIds \ {0} : ~dir[i].ex
              /\ ld.st # "none" => (ld.st = "ok" /\ ld.rows = sv.tbl)

\* The first save was of a table with no row, under the largest max_byte, and
\* the load after it returned no row.
C18_Witness ==
    /\ sv.gen = 1 /\ sv.st = "ok" /\ sv.tbl = <<>> /\ sv.m = MaxByte
    /\ dir[0].ex
    /\ ld = [st |-> "ok", rows |-> <<>>]

\* ==================================================== properties of SpecPath
Suffixes(p) == {SubSeq(p, i, Len(p)) : i \in 1..(Len(p) + 1)}

\* e is a file extension of p: a suffix ".xyz" with no further dot or separator,
\* after a file name that has a character other than a dot.
IsExtensionOf(e, p) ==
    /\ e \in Suffixes(p)
    /\ e # <<>>
    /\ e[1] = "."
    /\ \A i \in 2..Len(e) : e[i] \notin {".", "/"}
    /\ \E j \in 1..(Len(p) - Len(e)) :
          /\ p[j] \notin {".", "/"}
          /\ \A l \in j..(Len(p) - Len(e)) : p[l] # "/"

Extension(p) ==
    IF \E e \in Suffixes(p) : IsExtensionOf(e, p)
      THEN CHOOSE e \in Suffixes(p) : IsExtensionOf(e, p)
      ELSE <<>>

Stem(p) == SubSeq(p, 1, Len(p) - Len(Extension(p)))

\* C10: make_target and make_model_target resolve (path, unique_id) to the path
\* with '_' + unique_id put before the file extension, which differs from what
\* they resolve the path alone to (the path unchanged); a repeated call with the
\* same inputs resolves to the same path.
C10_PathDisambiguation ==
    [][fin'.kind # "none" =>
          /\ fin'.uid = NoneId => fin'.final = fin'.path
          /\ fin'.uid # NoneId =>
                /\ fin'.final = Stem(fin'.path) \o <<"_">> \o fin'.uid \o Extension(fin'.path)
                /\ fin'.final # MakeFilePath(fin'.path, NoneId)
          /\ fin.kind # "none" => fin'.final = fin.final]_vars

\* make_model_target('/a.a', unique_id='1') after make_target: '/a_1.a'.
C10_Witness ==
    /\ fin.kind = "model"
    /\ fin.path = <<"/", "a", ".", "a">>
    /\ fin.uid = <<"1">>
    /\ fin.final = <<"/", "a", "_", "1", ".", "a">>

\* ==================================================== properties of SpecMeta
Keys(m) == {m[i].k : i \in 1..Len(m)}
Has(m, k, str) == \E i \in 1..Len(m) : m[i].k = k /\ m[i].v = str

\* The size of every entry given, task parameters and custom labels together.
SizeOfAllGiven ==
    TotalSize(NormalizeLabels(pm.params)) + TotalSize(NormalizeLabels(pm.labels))

C15_LockScopeFromFinalPath ==
    fin.kind # "none" => fin.lockArgs = <<fin.final, fin.uid>>

\* ==================================================== properties of SpecNest
\* C20: a dump or load of an archive target, inside its own lock, asks for the
\* lock of the nested target of load_function.pkl, whose scope is made from the
\* scratch path: it is never a scope the caller holds, no caller holds a nested
\* lock while it waits for a lock, and every call returns in the end.
C20_NestedLockTerminates ==
    /\ [](\A p \in Procs :
            /\ At(p, "n_acq") => nest.lock[NestedScope(nest.call[p].a)] # p
            /\ (At(p, "n_acq") /\ nest.call[p].lad)
                  => nest.lock[ArchiveScope(nest.call[p].a)] = p
            /\ (At(p, "o_acq") \/ At(p, "n_acq"))
                  => \A a \in Archives : nest.lock[NestedScope(a)] # p)
    /\ \A p \in Procs : ~At(p, "idle") ~> At(p, "idle")

\* Two callers, on archives of different paths, each inside its nested call
\* and holding both its locks.
C20_Witness ==
    \E p, q \in Procs :
        /\ nest.call[p].a # nest.call[q].a
        /\ At(p, "n_run") /\ At(q, "n_run")
        /\ nest.lock[ArchiveScope(nest.call[p].a)] = p
        /\ nest.lock[NestedScope(nest.call[p].a)] = p
        /\ nest.lock[ArchiveScope(nest.call[q].a)] = q
        /\ nest.lock[NestedScope(nest.call[q].a)] = q

====
